---- MODULE Spec2Model ----
(***************************************************************************)
(* Model of the MultiSlider component (multiSlider.tsx) and of the         *)
(* windowOverride context validators.                                      *)
(*                                                                         *)
(* Arrays are functions on 0..n-1, as in the source, so that indices and   *)
(* the -1 sentinel of findFirstLockedHandleIndex keep their meaning.       *)
(***************************************************************************)
EXTENDS Integers, FiniteSets, Sequences, TLC

\* ---------------------------------------------------------------- bounds
MaxHandles == 3
MaxValue == 2
MaxStep == 1
MaxLabelStep == 3
MaxMin == 3
MaxMax == 6

\* ------------------------------------------------------- HandleInteractionKind
PUSH == "push"
LOCK == "lock"
NONE == "none"
HandleInteractionKind == {PUSH, LOCK, NONE}

\* the result of argMin on an empty array; Handle refs are 0, 1, ...
undefined == -1

VARIABLES
    children,        \* props.children: array of handle props, in child order
    disabled,        \* props.disabled
    mounted,         \* componentDidMount has run
    handleElements,  \* this.handleElements: refs of the rendered Handles
    ev,              \* the last event handled and the callbacks it invoked
    props,           \* the slider's base props (steps, range, labelRenderer)
    pc,              \* where the component is in its construct / render cycle
    thrown,          \* the error validateProps threw, or "none"
    tickSizeRatio,   \* state.tickSizeRatio
    i,               \* renderLabels: the loop variable i
    offsetRatio,     \* renderLabels: the loop variable offsetRatio
    labels,          \* renderLabels: the labels pushed so far
    context,         \* the context object handed to the windowOverride validators
    contextTypesResult,      \* what windowOverrideContextTypes returned
    reactContextTypesResult  \* what WINDOW_OVERRIDE_REACT_CONTEXT_TYPES returned

sliderVars == <<children, disabled, mounted, handleElements, ev>>
renderVars == <<props, pc, thrown, tickSizeRatio, i, offsetRatio, labels>>
windowVars == <<context, contextTypesResult, reactContextTypesResult>>
vars == <<sliderVars, renderVars, windowVars>>

\* ------------------------------------------------------------ array helpers
Length(a) == Cardinality(DOMAIN a)
EmptyArray == <<>>
Push(a, x) == [k \in 0..Length(a) |-> IF k < Length(a) THEN a[k] ELSE x]
Arrays(S, n) == [0..(n - 1) -> S]
ArraysUpTo(S, n) == UNION {Arrays(S, m) : m \in 0..n}

\* Array.prototype.sort((l, r) => l - r) on numbers
SortNumbers(a) ==
    LET rank(j) == Cardinality({m \in DOMAIN a : a[m] < a[j] \/ (a[m] = a[j] /\ m < j)})
    IN  [k \in DOMAIN a |-> a[CHOOSE j \in DOMAIN a : rank(j) = k]]

\* Array.prototype.indexOf
IndexOf(a, x) ==
    IF \E k \in DOMAIN a : a[k] = x
    THEN CHOOSE k \in DOMAIN a : a[k] = x /\ \A m \in DOMAIN a : a[m] = x => k <= m
    ELSE -1

\* ------------------------------------------------------------ sliderUtils
RECURSIVE fillLoop(_, _, _, _, _)
fillLoop(values, index, stop, inc, fillValue) ==
    IF index = stop THEN values
    ELSE fillLoop([values EXCEPT ![index] = fillValue], index + inc, stop, inc, fillValue)

fillValues(values, startIndex, endIndex, fillValue) ==
    LET inc == IF startIndex < endIndex THEN 1 ELSE -1
    IN  fillLoop(values, startIndex, endIndex + inc, inc, fillValue)

arraysEqual(arrA, arrB) ==
    /\ Length(arrA) = Length(arrB)
    /\ \A k \in DOMAIN arrA : arrA[k] = arrB[k]

\* ------------------------------------------------- getSortedHandleProps
\* child indices that pass the predicate, in the order the (stable) sort by
\* value leaves them
SortedChildIndices(ch, predicate) ==
    LET kept == {j \in DOMAIN ch : predicate[ch[j]]}
        rank(j) == Cardinality({m \in kept :
                        \/ ch[m].value < ch[j].value
                        \/ (ch[m].value = ch[j].value /\ m < j)})
    IN  [k \in 0..(Cardinality(kept) - 1) |-> CHOOSE j \in kept : rank(j) = k]

getSortedHandleProps(ch, predicate) ==
    LET idx == SortedChildIndices(ch, predicate)
    IN  [k \in DOMAIN idx |-> ch[idx[k]]]

HandleProps == [value : 0..MaxValue, interactionKind : HandleInteractionKind]

\* predicates on handle props are functions HandleProps -> BOOLEAN
IsInteractive == [childProps \in HandleProps |-> childProps.interactionKind # NONE]

getSortedInteractiveHandleProps(ch) == getSortedHandleProps(ch, IsInteractive)

SortedInteractiveChildIndices(ch) == SortedChildIndices(ch, IsInteractive)

HandleValues(handleProps) == [k \in DOMAIN handleProps |-> handleProps[k].value]

\* ------------------------------------------------- findFirstLockedHandleIndex
RECURSIVE lockLoop(_, _, _, _)
lockLoop(handleProps, index, stop, inc) ==
    IF index = stop THEN -1
    ELSE IF handleProps[index].interactionKind # PUSH THEN index
    ELSE lockLoop(handleProps, index + inc, stop, inc)

\* mutant: the walk stops one position short of endIndex
findFirstLockedHandleIndex_StopsShort(ch, startIndex, endIndex) ==
    LET inc == IF startIndex < endIndex THEN 1 ELSE -1
        handleProps == getSortedInteractiveHandleProps(ch)
    IN  IF startIndex = endIndex THEN -1
        ELSE lockLoop(handleProps, startIndex + inc, endIndex, inc)

findFirstLockedHandleIndex(ch, startIndex, endIndex) ==
    LET inc == IF startIndex < endIndex THEN 1 ELSE -1
        handleProps == getSortedInteractiveHandleProps(ch)
    IN  lockLoop(handleProps, startIndex + inc, endIndex + inc, inc)

\* ------------------------------------------------------- getNewHandleValues
\* mutant: the dragged value is written in place, nothing is reconciled
getNewHandleValues_InPlace(ch, newValue, oldIndex) ==
    [HandleValues(getSortedInteractiveHandleProps(ch)) EXCEPT ![oldIndex] = newValue]

\* mutant: the handles between the old and the new index are not pushed along
getNewHandleValues_NoFill(ch, newValue, oldIndex) ==
    LET handleProps == getSortedInteractiveHandleProps(ch)
        oldValues == HandleValues(handleProps)
        newValues == SortNumbers([oldValues EXCEPT ![oldIndex] = newValue])
        newIndex == IndexOf(newValues, newValue)
        lockIndex == findFirstLockedHandleIndex(ch, oldIndex, newIndex)
    IN  IF lockIndex = -1
        THEN newValues
        ELSE fillValues(oldValues, oldIndex, lockIndex, oldValues[lockIndex])

\* mutant: past a locked handle the clamp runs on to the new index
getNewHandleValues_FillToNewIndex(ch, newValue, oldIndex) ==
    LET handleProps == getSortedInteractiveHandleProps(ch)
        oldValues == HandleValues(handleProps)
        newValues == SortNumbers([oldValues EXCEPT ![oldIndex] = newValue])
        newIndex == IndexOf(newValues, newValue)
        lockIndex == findFirstLockedHandleIndex(ch, oldIndex, newIndex)
    IN  IF lockIndex = -1
        THEN fillValues(newValues, oldIndex, newIndex, newValue)
        ELSE fillValues(oldValues, oldIndex, newIndex, oldValues[lockIndex])

getNewHandleValues(ch, newValue, oldIndex) ==
    LET handleProps == getSortedInteractiveHandleProps(ch)
        oldValues == HandleValues(handleProps)
        newValues == SortNumbers([oldValues EXCEPT ![oldIndex] = newValue])
        newIndex == IndexOf(newValues, newValue)
        lockIndex == findFirstLockedHandleIndex(ch, oldIndex, newIndex)
    IN  IF lockIndex = -1
        THEN fillValues(newValues, oldIndex, newIndex, newValue)
        ELSE fillValues(oldValues, oldIndex, lockIndex, oldValues[lockIndex])

\* ------------------------------------------------ handleChange / handleRelease
\* the callbacks a handler invokes: the arrays passed to the slider-level
\* callback and the <<sorted index, value>> pairs passed to the handles'
\* callbacks, both in call order
\* Utils.safeInvoke with a callback that is supplied: the call is made
safeInvoke(calls, argument) == Append(calls, argument)

RECURSIVE changedFrom(_, _, _)
changedFrom(oldValues, newValues, index) ==
    IF index >= Length(oldValues) THEN <<>>
    ELSE (IF oldValues[index] # newValues[index]
          THEN safeInvoke(<<>>, <<index, newValues[index]>>) ELSE <<>>)
         \o changedFrom(oldValues, newValues, index + 1)

\* mutant: the callbacks are invoked without comparing with the old values
handleChange_Unguarded(ch, newValues) ==
    LET handleProps == getSortedInteractiveHandleProps(ch)
        oldValues == HandleValues(handleProps)
    IN  [slider |-> <<newValues>>, handles |-> changedFrom(oldValues, newValues, 0)]

handleChange(ch, newValues) ==
    LET handleProps == getSortedInteractiveHandleProps(ch)
        oldValues == HandleValues(handleProps)
    IN  IF ~arraysEqual(newValues, oldValues)
        THEN [slider |-> safeInvoke(<<>>, newValues),
              handles |-> changedFrom(oldValues, newValues, 0)]
        ELSE [slider |-> <<>>, handles |-> <<>>]

\* mutant: release notifies only the handles whose value differs
handleRelease_OnlyChanged(ch, newValues) ==
    LET handleProps == getSortedInteractiveHandleProps(ch)
        oldValues == HandleValues(handleProps)
    IN  [slider |-> <<newValues>>, handles |-> changedFrom(oldValues, newValues, 0)]

RECURSIVE releasedFrom(_, _, _)
releasedFrom(handleProps, newValues, index) ==
    IF index >= Length(handleProps) THEN <<>>
    ELSE safeInvoke(<<>>, <<index, newValues[index]>>)
         \o releasedFrom(handleProps, newValues, index + 1)

handleRelease(ch, newValues) ==
    LET handleProps == getSortedInteractiveHandleProps(ch)
    IN  [slider |-> safeInvoke(<<>>, newValues),
         handles |-> releasedFrom(handleProps, newValues, 0)]

\* --------------------------------------------------------------- the parent
\* a controlled parent writes the emitted array back into the handles'
\* value props, position by position of the sorted interactive handles
FeedBack(ch, values) ==
    LET idx == SortedInteractiveChildIndices(ch)
    IN  [j \in DOMAIN ch |->
            IF \E k \in DOMAIN idx : idx[k] = j
            THEN [ch[j] EXCEPT !.value = values[CHOOSE k \in DOMAIN idx : idx[k] = j]]
            ELSE ch[j]]

\* ----------------------------------------------------------- track events
\* mutant: the disabled prop is not consulted
canHandleTrackEvent_IgnoresDisabled(isDisabled, insideHandle) == ~insideHandle

canHandleTrackEvent(isDisabled, insideHandle) == ~isDisabled /\ ~insideHandle

\* argFn is a function from the values to their numeric argument
RECURSIVE argMinLoop(_, _, _, _, _)
argMinLoop(values, argFn, index, minValue, minArg) ==
    IF index >= Length(values) THEN minValue
    ELSE IF argFn[values[index]] < minArg
         THEN argMinLoop(values, argFn, index + 1, values[index], argFn[values[index]])
         ELSE argMinLoop(values, argFn, index + 1, minValue, minArg)

argMin(values, argFn) ==
    IF Length(values) = 0 THEN undefined
    ELSE argMinLoop(values, argFn, 1, values[0], argFn[values[0]])

Abs(x) == IF x < 0 THEN -x ELSE x

\* a Handle ref is the sorted index the Handle was rendered for; its
\* props.value is the value of that sorted interactive handle
nearestHandleForValue(ch, handles, offsetValue) ==
    LET handleProps == getSortedInteractiveHandleProps(ch)
        distance == [handle \in DOMAIN handleProps |-> Abs(offsetValue - handleProps[handle].value)]
    IN  argMin(handles, distance)

maybeHandleTrack(ch, isDisabled, handles, offsetValue, insideHandle) ==
    IF canHandleTrackEvent(isDisabled, insideHandle)
    THEN LET foundHandle == nearestHandleForValue(ch, handles, offsetValue)
         IN  IF foundHandle # undefined THEN <<foundHandle>> ELSE <<>>
    ELSE <<>>


\* ------------------------------------------------ numbers of the label axis
\* min, max and the step sizes are integers counting units of 0.000005; a
\* ratio is an exact fraction [n, d] in lowest terms with d > 0, or d = 0 for
\* the IEEE values Infinity (n = 1), -Infinity (n = -1) and NaN (n = 0)
Tolerance == 2

approxEqual(a, b) == Abs(a - b) <= Tolerance

Sign(x) == IF x > 0 THEN 1 ELSE IF x < 0 THEN -1 ELSE 0

RECURSIVE Gcd(_, _)
Gcd(a, b) == IF b = 0 THEN a ELSE Gcd(b, a % b)

Ratio(n, d) ==
    IF d = 0 THEN [n |-> Sign(n), d |-> 0]
    ELSE LET g == Gcd(Abs(n), Abs(d))
         IN  [n |-> Sign(n) * Sign(d) * (Abs(n) \div g), d |-> Abs(d) \div g]

Zero == [n |-> 0, d |-> 1]
NaN == [n |-> 0, d |-> 0]

\* ratio * integer
Times(r, k) ==
    IF r.d = 0 THEN [n |-> r.n * Sign(k), d |-> 0]
    ELSE Ratio(r.n * k, r.d)

Plus(a, b) ==
    IF a.d # 0 /\ b.d # 0 THEN Ratio(a.n * b.d + b.n * a.d, a.d * b.d)
    ELSE IF a.d # 0 THEN b
    ELSE IF b.d # 0 THEN a
    ELSE IF a.n = b.n THEN a ELSE NaN

\* ------------------------------------------------------------ validateProps
SLIDER_ZERO_STEP == "SLIDER_ZERO_STEP"
SLIDER_ZERO_LABEL_STEP == "SLIDER_ZERO_LABEL_STEP"
MULTISLIDER_INVALID_CHILD == "MULTISLIDER_INVALID_CHILD"

\* mutant: only negative steps are rejected
validateProps_AllowsZero(p) ==
    IF p.stepSize < 0 THEN SLIDER_ZERO_STEP
    ELSE IF p.labelStepSize < 0 THEN SLIDER_ZERO_LABEL_STEP
    ELSE IF p.anyInvalidChildren THEN MULTISLIDER_INVALID_CHILD
    ELSE "none"

\* the error validateProps throws, "none" when it returns
validateProps(p) ==
    IF p.stepSize <= 0 THEN SLIDER_ZERO_STEP
    ELSE IF p.labelStepSize <= 0 THEN SLIDER_ZERO_LABEL_STEP
    ELSE IF p.anyInvalidChildren THEN MULTISLIDER_INVALID_CHILD
    ELSE "none"

\* ------------------------------------------------------------- renderLabels
\* mutant: the loop stops at the first value that is not below max
labelLoopCondition_Strict(iv, max) == iv < max

\* the condition of the for loop
labelLoopCondition(iv, max) == iv < max \/ approxEqual(iv, max)

SliderProps ==
    [stepSize : (-1)..MaxStep, labelStepSize : (-1)..MaxLabelStep,
     min : 0..MaxMin, max : 0..MaxMax,
     labelRenderer : {"true", "false", "function"},
     anyInvalidChildren : BOOLEAN]

DefaultSliderProps ==
    [stepSize |-> 1, labelStepSize |-> 1, min |-> 0, max |-> 10,
     labelRenderer |-> "true", anyInvalidChildren |-> FALSE]

RenderUnused ==
    /\ props = DefaultSliderProps
    /\ pc = "idle"
    /\ thrown = "none"
    /\ tickSizeRatio = Zero
    /\ i = 0
    /\ offsetRatio = Zero
    /\ labels = <<>>

SliderUnused ==
    /\ children = EmptyArray
    /\ disabled = FALSE
    /\ mounted = FALSE
    /\ handleElements = EmptyArray
    /\ ev = [op |-> "none", index |-> -1, newValue |-> -1, before |-> <<>>, result |-> <<>>,
             slider |-> <<>>, handles |-> <<>>, fed |-> FALSE, began |-> <<>>, inside |-> FALSE]

WindowUnused ==
    /\ context = [kind |-> "undefined", document |-> "undefined", location |-> "undefined",
                  alert |-> "undefined", setInterval |-> "undefined"]
    /\ contextTypesResult = "unset"
    /\ reactContextTypesResult = "unset"

InitRender ==
    /\ SliderUnused
    /\ WindowUnused
    /\ props \in SliderProps
    /\ pc = "new"
    /\ thrown = "none"
    /\ tickSizeRatio = Zero
    /\ i = 0
    /\ offsetRatio = Zero
    /\ labels = <<>>

\* the constructor validates the props; render follows when nothing is thrown
ValidateProps ==
    /\ pc = "new"
    /\ thrown' = validateProps(props)
    /\ pc' = IF validateProps(props) = "none" THEN "render" ELSE "failed"
    /\ UNCHANGED <<props, tickSizeRatio, i, offsetRatio, labels>>

\* renderLabels up to the initialisation of the for loop
RenderLabels ==
    /\ pc = "render"
    /\ labels' = <<>>
    /\ IF props.labelRenderer = "false"
       THEN pc' = "rendered" /\ UNCHANGED <<i, offsetRatio>>
       ELSE pc' = "labels" /\ i' = props.min /\ offsetRatio' = Zero
    /\ UNCHANGED <<props, thrown, tickSizeRatio>>

\* one evaluation of the loop condition, and the body and increment after it
LabelLoop ==
    /\ pc = "labels"
    /\ LET stepSizeRatio == Times(tickSizeRatio, props.labelStepSize)
       IN  IF labelLoopCondition(i, props.max)
           THEN /\ labels' = Append(labels, [value |-> i, offsetRatio |-> offsetRatio])
                /\ i' = i + props.labelStepSize
                /\ offsetRatio' = Plus(offsetRatio, stepSizeRatio)
                /\ pc' = pc
           ELSE /\ pc' = "rendered"
                /\ UNCHANGED <<i, offsetRatio, labels>>
    /\ UNCHANGED <<props, thrown, tickSizeRatio>>

\* componentDidMount / componentDidUpdate: updateTickSize sets the state, and
\* a changed state renders again
UpdateTickSize ==
    /\ pc = "rendered"
    /\ tickSizeRatio' = Ratio(1, props.max - props.min)
    /\ pc' = IF tickSizeRatio' # tickSizeRatio THEN "render" ELSE "idle"
    /\ UNCHANGED <<props, thrown, i, offsetRatio, labels>>

NextRender ==
    \/ ValidateProps /\ UNCHANGED <<sliderVars, windowVars>>
    \/ RenderLabels /\ UNCHANGED <<sliderVars, windowVars>>
    \/ LabelLoop /\ UNCHANGED <<sliderVars, windowVars>>
    \/ UpdateTickSize /\ UNCHANGED <<sliderVars, windowVars>>

\* ------------------------------------------------- windowOverride validators
\* a member, or the value itself, is null, undefined or something else
Nullish == {"null", "undefined"}
Members == {"null", "undefined", "present"}

\* obj[key]: null, undefined, or an object with the four members
ContextValues ==
    [kind : {"object"}, document : Members, location : Members, alert : Members, setInterval : Members]
    \cup [kind : Nullish, document : {"undefined"}, location : {"undefined"},
          alert : {"undefined"}, setInterval : {"undefined"}]

WINDOW_OVERRIDE_CONTEXT_UNEXPECTED_TYPE == "WINDOW_OVERRIDE_CONTEXT_UNEXPECTED_TYPE"
WINDOW_OVERRIDE_CONTEXT_CLASS_NAME_STRING == "WINDOW_OVERRIDE_CONTEXT_CLASS_NAME_STRING"

\* mutant: setInterval is not looked at
windowOverrideContextTypes_SkipsSetInterval(value) ==
    IF /\ value.kind \notin Nullish
       /\ (value.document \in Nullish \/ value.location \in Nullish \/ value.alert \in Nullish)
    THEN WINDOW_OVERRIDE_CONTEXT_UNEXPECTED_TYPE
    ELSE "undefined"

\* the Error message returned, or "undefined"
windowOverrideContextTypes(value) ==
    IF /\ value.kind \notin Nullish
       /\ (value.document \in Nullish \/ value.location \in Nullish
              \/ value.alert \in Nullish \/ value.setInterval \in Nullish)
    THEN WINDOW_OVERRIDE_CONTEXT_UNEXPECTED_TYPE
    ELSE "undefined"

WINDOW_OVERRIDE_REACT_CONTEXT_TYPES(variable) ==
    IF /\ variable.kind \notin Nullish
       /\ (variable.document \in Nullish \/ variable.location \in Nullish
              \/ variable.alert \in Nullish \/ variable.setInterval \in Nullish)
    THEN WINDOW_OVERRIDE_CONTEXT_CLASS_NAME_STRING
    ELSE "undefined"

InitWindow ==
    /\ SliderUnused
    /\ RenderUnused
    /\ context \in ContextValues
    /\ contextTypesResult = "unset"
    /\ reactContextTypesResult = "unset"

ValidateContextTypes ==
    /\ contextTypesResult = "unset"
    /\ contextTypesResult' = windowOverrideContextTypes(context)
    /\ UNCHANGED <<context, reactContextTypesResult>>

ValidateReactContextTypes ==
    /\ reactContextTypesResult = "unset"
    /\ reactContextTypesResult' = WINDOW_OVERRIDE_REACT_CONTEXT_TYPES(context)
    /\ UNCHANGED <<context, contextTypesResult>>

NextWindow ==
    \/ ValidateContextTypes /\ UNCHANGED <<sliderVars, renderVars>>
    \/ ValidateReactContextTypes /\ UNCHANGED <<sliderVars, renderVars>>

\* -------------------------------------------------------------- the machine

NoEvent ==
    [op |-> "none", index |-> -1, newValue |-> -1, before |-> <<>>, result |-> <<>>,
     slider |-> <<>>, handles |-> <<>>, fed |-> FALSE, began |-> <<>>, inside |-> FALSE]

\* the handles are given as children in ascending order of value, with any
\* interaction kinds
Ascending(ch) == \A k, m \in DOMAIN ch : k < m => ch[k].value <= ch[m].value

Init ==
    /\ children \in {ch \in ArraysUpTo(HandleProps, MaxHandles) : Ascending(ch)}
    /\ disabled \in BOOLEAN
    /\ mounted = FALSE
    /\ handleElements = EmptyArray
    /\ ev = NoEvent
    /\ RenderUnused
    /\ WindowUnused

\* componentDidMount: every rendered Handle has registered through addHandleRef
ComponentDidMount ==
    /\ ~mounted
    /\ mounted' = TRUE
    /\ handleElements' = [k \in DOMAIN getSortedInteractiveHandleProps(children) |-> k]
    /\ UNCHANGED <<children, disabled, ev, renderVars, windowVars>>

\* the handler getHandlerForIndex(index, this.handleChange), called by a
\* Handle of a slider that is not disabled
DragHandle(index, newValue, feed) ==
    /\ mounted /\ ev.op = "none" /\ ~disabled
    /\ index \in DOMAIN getSortedInteractiveHandleProps(children)
    /\ LET newValues == getNewHandleValues(children, newValue, index)
           calls == handleChange(children, newValues)
           fed == feed /\ calls.slider # <<>>
       IN  /\ ev' = [NoEvent EXCEPT !.op = "change", !.index = index, !.newValue = newValue,
                        !.before = children, !.result = newValues,
                        !.slider = calls.slider, !.handles = calls.handles, !.fed = fed]
           /\ children' = IF fed THEN FeedBack(children, newValues) ELSE children
    /\ UNCHANGED <<disabled, mounted, handleElements, renderVars, windowVars>>

\* the handler getHandlerForIndex(index, this.handleRelease), called by a
\* Handle of a slider that is not disabled
ReleaseHandle(index, newValue, feed) ==
    /\ mounted /\ ev.op = "none" /\ ~disabled
    /\ index \in DOMAIN getSortedInteractiveHandleProps(children)
    /\ LET newValues == getNewHandleValues(children, newValue, index)
           calls == handleRelease(children, newValues)
       IN  /\ ev' = [NoEvent EXCEPT !.op = "release", !.index = index, !.newValue = newValue,
                        !.before = children, !.result = newValues,
                        !.slider = calls.slider, !.handles = calls.handles, !.fed = feed]
           /\ children' = IF feed THEN FeedBack(children, newValues) ELSE children
    /\ UNCHANGED <<disabled, mounted, handleElements, renderVars, windowVars>>

maybeHandleTrackClick(offsetValue, insideHandle) ==
    /\ mounted /\ ev.op = "none"
    /\ ev' = [NoEvent EXCEPT !.op = "mouse", !.newValue = offsetValue, !.before = children,
                 !.inside = insideHandle,
                 !.began = maybeHandleTrack(children, disabled, handleElements, offsetValue, insideHandle)]
    /\ UNCHANGED <<children, disabled, mounted, handleElements, renderVars, windowVars>>

maybeHandleTrackTouch(offsetValue, insideHandle) ==
    /\ mounted /\ ev.op = "none"
    /\ ev' = [NoEvent EXCEPT !.op = "touch", !.newValue = offsetValue, !.before = children,
                 !.inside = insideHandle,
                 !.began = maybeHandleTrack(children, disabled, handleElements, offsetValue, insideHandle)]
    /\ UNCHANGED <<children, disabled, mounted, handleElements, renderVars, windowVars>>

\* the handler has returned to the browser's event loop; the next event is
\* handled from here
HandlerReturn ==
    /\ ev.op \notin {"none", "snapshot"}
    /\ ev' = NoEvent
    /\ UNCHANGED <<children, disabled, mounted, handleElements, renderVars, windowVars>>

Next ==
    \/ ComponentDidMount
    \/ HandlerReturn
    \/ \E index \in 0..(MaxHandles - 1), newValue \in 0..MaxValue, feed \in BOOLEAN :
          DragHandle(index, newValue, feed)
    \/ \E index \in 0..(MaxHandles - 1), newValue \in 0..MaxValue, feed \in BOOLEAN :
          ReleaseHandle(index, newValue, feed)
    \/ \E offsetValue \in 0..MaxValue, insideHandle \in BOOLEAN :
          maybeHandleTrackClick(offsetValue, insideHandle)
    \/ \E offsetValue \in 0..MaxValue, insideHandle \in BOOLEAN :
          maybeHandleTrackTouch(offsetValue, insideHandle)

Spec == Init /\ [][Next]_vars

\* construction and rendering of one slider; the label loop runs to completion
SpecRender ==
    /\ InitRender
    /\ [][NextRender]_vars
    /\ WF_vars(NextRender)

\* the two windowOverride validators applied to one context value
SpecWindow ==
    /\ InitWindow
    /\ [][NextWindow]_vars

\* ------------------------------------------------------ updates and refs
\* a ref callback is called with null when its Handle unmounts
null == -2

addHandleRef(elements, ref) ==
    IF ref # null /\ ref # undefined THEN Push(elements, ref) ELSE elements

\* mutant: the handles are counted without the interactive filter
getSnapshotBeforeUpdate_CountsAllChildren(prevCh, ch, elements) ==
    IF Length(ch) # Length(prevCh) THEN EmptyArray ELSE elements

\* this.handleElements after getSnapshotBeforeUpdate(prevProps), this.props
\* being the new props
getSnapshotBeforeUpdate(prevCh, ch, elements) ==
    LET prevHandleProps == getSortedInteractiveHandleProps(prevCh)
        newHandleProps == getSortedInteractiveHandleProps(ch)
    IN  IF Length(newHandleProps) # Length(prevHandleProps) THEN EmptyArray ELSE elements

\* the keys renderHandles gives the Handles: `${index}-${handleProps.length}`
HandleKeys(ch) ==
    LET handleProps == getSortedInteractiveHandleProps(ch)
    IN  {<<index, Length(handleProps)>> : index \in DOMAIN handleProps}

\* the ref callbacks of the Handles whose key is gone are called with null
RECURSIVE detachRefs(_, _)
detachRefs(elements, count) ==
    IF count = 0 THEN elements ELSE detachRefs(addHandleRef(elements, null), count - 1)

\* the ref callbacks of the Handles whose key is new are called, in render
\* order, with the Handle (the sorted index it is rendered for)
RECURSIVE attachRefs(_, _, _, _)
attachRefs(elements, newKeys, index, count) ==
    IF index >= count THEN elements
    ELSE attachRefs(IF <<index, count>> \in newKeys THEN addHandleRef(elements, index) ELSE elements,
                    newKeys, index + 1, count)

\* the commit of a render: a Handle keeps its instance and its ref exactly
\* when its key is in the previous and in the new render
commitRefs(prevCh, ch, elements) ==
    LET gone == HandleKeys(prevCh) \ HandleKeys(ch)
        new == HandleKeys(ch) \ HandleKeys(prevCh)
    IN  attachRefs(detachRefs(elements, Cardinality(gone)), new, 0,
                   Length(getSortedInteractiveHandleProps(ch)))

\* the children a parent passes next: some children dropped, the interaction
\* kinds changed, or one child inserted
SubArray(ch, kept) ==
    [k \in 0..(Cardinality(kept) - 1) |->
        ch[CHOOSE j \in kept : Cardinality({m \in kept : m < j}) = k]]

InsertAt(ch, position, childProps) ==
    [k \in 0..Length(ch) |->
        IF k < position THEN ch[k] ELSE IF k = position THEN childProps ELSE ch[k - 1]]

NextChildren(ch) ==
    {SubArray(ch, kept) : kept \in SUBSET DOMAIN ch}
    \cup {[j \in DOMAIN ch |-> [ch[j] EXCEPT !.interactionKind = kinds[j]]] :
             kinds \in [DOMAIN ch -> HandleInteractionKind]}
    \cup (IF Length(ch) < MaxHandles
          THEN {new \in {InsertAt(ch, position, childProps) :
                            position \in 0..Length(ch), childProps \in HandleProps} :
                   Ascending(new)}
          ELSE {})

InitUpdate ==
    /\ children \in {ch \in ArraysUpTo(HandleProps, MaxHandles) : Ascending(ch)}
    /\ disabled = FALSE
    /\ mounted = FALSE
    /\ handleElements = EmptyArray
    /\ ev = NoEvent
    /\ RenderUnused
    /\ WindowUnused

\* new props arrive: getSnapshotBeforeUpdate runs before the commit
UpdateProps(newChildren) ==
    /\ mounted /\ ev.op = "none"
    /\ newChildren # children
    /\ children' = newChildren
    /\ handleElements' = getSnapshotBeforeUpdate(children, newChildren, handleElements)
    /\ ev' = [NoEvent EXCEPT !.op = "snapshot", !.before = children]
    /\ UNCHANGED <<disabled, mounted, renderVars, windowVars>>

\* setState (updateTickSize): the same lifecycle with prevProps = this.props
UpdateState ==
    /\ mounted /\ ev.op = "none"
    /\ handleElements' = getSnapshotBeforeUpdate(children, children, handleElements)
    /\ ev' = [NoEvent EXCEPT !.op = "snapshot", !.before = children]
    /\ UNCHANGED <<children, disabled, mounted, renderVars, windowVars>>

\* the commit: refs of unmounted Handles detach, refs of mounted ones attach
CommitUpdate ==
    /\ ev.op = "snapshot"
    /\ handleElements' = commitRefs(ev.before, children, handleElements)
    /\ ev' = [ev EXCEPT !.op = "updated"]
    /\ UNCHANGED <<children, disabled, mounted, renderVars, windowVars>>

NextUpdate ==
    \/ ComponentDidMount
    \/ \E newChildren \in NextChildren(children) : UpdateProps(newChildren)
    \/ UpdateState
    \/ CommitUpdate
    \/ HandlerReturn

\* mount and any sequence of updates of one slider
SpecUpdate == InitUpdate /\ [][NextUpdate]_vars

\* ------------------------------------------------------------------ claims
IsDrag == ev.op \in {"change", "release"}
Before == getSortedInteractiveHandleProps(ev.before)
OldValues == HandleValues(Before)
IsSorted(a) == \A k, m \in DOMAIN a : k < m => a[k] <= a[m]
Between(k, a, b) == (a <= k /\ k <= b) \/ (b <= k /\ k <= a)

\* the position the dragged value takes once the old values, with the dragged
\* position replaced, are sorted ascending (first position among equals)
ClaimNewIndex == Cardinality({k \in DOMAIN OldValues \ {ev.index} : OldValues[k] < ev.newValue})
\* the positions walked from the dragged index (excluded) to ClaimNewIndex (included)
Path == {k \in DOMAIN OldValues : k # ev.index /\ Between(k, ev.index, ClaimNewIndex)}
NonPushOnPath == {k \in Path : Before[k].interactionKind # PUSH}
NearestNonPush ==
    CHOOSE k \in NonPushOnPath : \A m \in NonPushOnPath : Abs(k - ev.index) <= Abs(m - ev.index)

\* C1: the array getNewHandleValues produces, and every array handed to the
\* slider's onChange / onRelease, is in non-decreasing order and as long as
\* the list of interactive handles.
C1_SortedSameLength ==
    IsDrag =>
        /\ IsSorted(ev.result) /\ Length(ev.result) = Length(Before)
        /\ \A c \in 1..Len(ev.slider) :
              IsSorted(ev.slider[c]) /\ Length(ev.slider[c]) = Length(Before)

C1_Witness ==
    /\ ev.op = "change" /\ ev.slider # <<>>
    /\ Length(Before) = MaxHandles
    /\ \E k, m \in DOMAIN Before :
          Before[k].interactionKind = PUSH /\ Before[m].interactionKind = LOCK
    /\ \E k \in DOMAIN OldValues : k # ev.index /\ ev.result[k] # OldValues[k]

\* C2: when a handle other than PUSH lies on the way from the dragged index
\* to the new index, the result is the old values with every position from
\* the dragged index to the nearest such handle L set to L's old value.
C2_ClampAgainstLock ==
    (IsDrag /\ NonPushOnPath # {}) =>
        ev.result = [k \in DOMAIN OldValues |->
                        IF Between(k, ev.index, NearestNonPush)
                        THEN OldValues[NearestNonPush] ELSE OldValues[k]]

C2_Witness ==
    /\ IsDrag /\ NonPushOnPath # {}
    /\ Abs(NearestNonPush - ev.index) >= 2
    /\ ev.result # OldValues
    /\ ev.newValue # OldValues[NearestNonPush]

\* C3: when every handle on the way from the dragged index to the new index
\* is PUSH, the result has the dragged value at every position from the
\* dragged index to the new index and the old value everywhere else.
C3_PushAlong ==
    (IsDrag /\ NonPushOnPath = {}) =>
        ev.result = [k \in DOMAIN OldValues |->
                        IF Between(k, ev.index, ClaimNewIndex)
                        THEN ev.newValue ELSE OldValues[k]]

C3_Witness ==
    /\ IsDrag /\ NonPushOnPath = {}
    /\ ClaimNewIndex # ev.index
    /\ OldValues[ClaimNewIndex] # ev.newValue
    /\ \E k \in DOMAIN OldValues : ~Between(k, ev.index, ClaimNewIndex)
\* C6: handleChange calls the slider's onChange exactly when the reconciled
\* array differs from the current sorted values, and a handle's onChange
\* exactly for the positions whose value differs, with the new value; a drag
\* of a handle resting at a locked neighbour's value past that neighbour
\* invokes no callback.
C6_ChangeOnlyOnDifference ==
    ev.op = "change" =>
        /\ ev.slider = (IF ev.result # OldValues THEN <<ev.result>> ELSE <<>>)
        /\ {ev.handles[c] : c \in 1..Len(ev.handles)} =
              {<<k, ev.result[k]>> : k \in {m \in DOMAIN OldValues : ev.result[m] # OldValues[m]}}
        /\ \A c, d \in 1..Len(ev.handles) : ev.handles[c][1] = ev.handles[d][1] => c = d
        /\ (NonPushOnPath # {} /\ OldValues[ev.index] = OldValues[NearestNonPush])
              => (ev.slider = <<>> /\ ev.handles = <<>>)

C6_Witness ==
    /\ ev.op = "change"
    /\ ev.slider = <<ev.result>>
    /\ Len(ev.handles) >= 2 /\ Len(ev.handles) < Length(Before)

C6_WitnessAtLock ==
    /\ ev.op = "change"
    /\ NonPushOnPath # {} /\ OldValues[ev.index] = OldValues[NearestNonPush]
    /\ ev.newValue # OldValues[ev.index]
    /\ ev.slider = <<>>

\* C7: a release invokes the slider's onRelease exactly once with the
\* reconciled array, changed or not, and the onRelease of every interactive
\* handle with the value at its sorted position.
C7_ReleaseAlwaysNotifies ==
    ev.op = "release" =>
        /\ ev.slider = <<ev.result>>
        /\ Len(ev.handles) = Length(Before)
        /\ \A k \in DOMAIN Before : ev.handles[k + 1] = <<k, ev.result[k]>>

C7_Witness ==
    /\ ev.op = "release"
    /\ ev.result = OldValues
    /\ Length(Before) >= 2
    /\ Len(ev.handles) = Length(Before)

\* C8: a mouse-down / touch-start on the track begins no handle movement
\* when the slider is disabled or the target is inside a handle; otherwise
\* it begins movement on exactly one registered handle, one at minimal
\* distance from the value under the pointer, and on none when no handle is
\* registered.
IsTrackEvent == ev.op \in {"mouse", "touch"}
Registered == {handleElements[k] : k \in DOMAIN handleElements}
Distance(handle) == Abs(ev.newValue - Before[handle].value)

C8_TrackEvent ==
    IsTrackEvent =>
        IF disabled \/ ev.inside THEN ev.began = <<>>
        ELSE IF Registered = {} THEN ev.began = <<>>
        ELSE /\ Len(ev.began) = 1
             /\ ev.began[1] \in Registered
             /\ \A h \in Registered : Distance(ev.began[1]) <= Distance(h)

C8_Witness ==
    /\ IsTrackEvent /\ ~disabled /\ ~ev.inside
    /\ Len(ev.began) = 1 /\ ev.began[1] # handleElements[0]
    /\ \E h \in Registered : Distance(h) > Distance(ev.began[1])

C8_WitnessDisabled == IsTrackEvent /\ disabled /\ ~ev.inside /\ Registered # {}
C8_WitnessNoHandle == IsTrackEvent /\ ~disabled /\ ~ev.inside /\ Registered = {} /\ ev.began = <<>>

\* C9: with the emitted arrays fed back into the handles, a handle whose
\* interaction kind is not PUSH keeps its value through every drag or
\* release of another handle.
DraggedChild(ch, index) == SortedInteractiveChildIndices(ch)[index]

C9_LockedNeverMoved ==
    [][ev'.op \in {"change", "release"} =>
          \A j \in DOMAIN children :
             (children[j].interactionKind # PUSH /\ j # DraggedChild(children, ev'.index))
                => (j \in DOMAIN children' /\ children'[j] = children[j])]_vars

C9_Witness ==
    /\ IsDrag /\ ev.fed
    /\ children = FeedBack(ev.before, ev.result)
    /\ children # ev.before
    /\ NonPushOnPath # {}
    /\ ClaimNewIndex # NearestNonPush
\* C4: validateProps throws SLIDER_ZERO_STEP whenever stepSize <= 0,
\* SLIDER_ZERO_LABEL_STEP whenever stepSize > 0 and labelStepSize <= 0, and
\* neither of the two when both are greater than zero.
C4_RejectsNonPositiveSteps ==
    pc # "new" =>
        /\ props.stepSize <= 0 => thrown = SLIDER_ZERO_STEP
        /\ (props.stepSize > 0 /\ props.labelStepSize <= 0) => thrown = SLIDER_ZERO_LABEL_STEP
        /\ (props.stepSize > 0 /\ props.labelStepSize > 0)
              => thrown \notin {SLIDER_ZERO_STEP, SLIDER_ZERO_LABEL_STEP}

C4_Witness ==
    /\ pc = "failed" /\ thrown = SLIDER_ZERO_LABEL_STEP
    /\ props.stepSize > 0 /\ props.labelStepSize = 0

\* C5: each validator returns an Error exactly when the value is neither
\* null nor undefined and one of document, location, alert, setInterval is
\* null or undefined, and undefined otherwise; the two copies accept and
\* reject the same inputs.
ContextRejected ==
    /\ context.kind \notin Nullish
    /\ \E member \in {context.document, context.location, context.alert, context.setInterval} :
          member \in Nullish

C5_WindowOverrideValidators ==
    /\ contextTypesResult # "unset" =>
          IF ContextRejected THEN contextTypesResult = WINDOW_OVERRIDE_CONTEXT_UNEXPECTED_TYPE
          ELSE contextTypesResult = "undefined"
    /\ reactContextTypesResult # "unset" =>
          IF ContextRejected THEN reactContextTypesResult = WINDOW_OVERRIDE_CONTEXT_CLASS_NAME_STRING
          ELSE reactContextTypesResult = "undefined"
    /\ (contextTypesResult # "unset" /\ reactContextTypesResult # "unset") =>
          ((contextTypesResult = "undefined") <=> (reactContextTypesResult = "undefined"))

C5_Witness ==
    /\ contextTypesResult = WINDOW_OVERRIDE_CONTEXT_UNEXPECTED_TYPE
    /\ reactContextTypesResult = WINDOW_OVERRIDE_CONTEXT_CLASS_NAME_STRING
    /\ context.document = "present" /\ context.location = "present"
    /\ context.alert = "present" /\ context.setInterval = "undefined"
\* the number of values min + k * labelStepSize, k = 0, 1, ..., not above bound
LabelCount(bound) ==
    IF bound < props.min THEN 0 ELSE (bound - props.min) \div props.labelStepSize + 1

\* C10 as stated: one label for each min + k * labelStepSize that does not
\* exceed max, the k-th at offset ratio k * labelStepSize * tickSizeRatio;
\* none when max < min or labelRenderer is false.
StatedLabels ==
    IF props.labelRenderer = "false" THEN <<>>
    ELSE [n \in 1..LabelCount(props.max) |->
            [value |-> props.min + (n - 1) * props.labelStepSize,
             offsetRatio |-> Times(tickSizeRatio, (n - 1) * props.labelStepSize)]]

AmendedLabels ==
    IF props.labelRenderer = "false" THEN <<>>
    ELSE [n \in 1..LabelCount(props.max + Tolerance) |->
            [value |-> props.min + (n - 1) * props.labelStepSize,
             offsetRatio |-> IF n = 1 THEN Zero
                             ELSE Times(tickSizeRatio, (n - 1) * props.labelStepSize)]]

C10_WitnessAboveMax ==
    /\ pc = "rendered" /\ labels # <<>> /\ labels[Len(labels)].value > props.max
C10_WitnessBelowMin ==
    /\ pc = "rendered" /\ props.labelRenderer # "false"
    /\ props.max < props.min - Tolerance /\ labels = <<>>
C10_WitnessNoRenderer ==
    /\ pc = "rendered" /\ props.labelRenderer = "false"
    /\ props.max > props.min /\ labels = <<>>
C10_WitnessInfinity ==
    /\ pc = "rendered" /\ tickSizeRatio.d = 0 /\ Len(labels) >= 2
\* C11: getSnapshotBeforeUpdate empties the list of handle refs exactly when
\* the number of interactive handles differs between the previous and the
\* new props and leaves it untouched otherwise, and outside an update in
\* progress the list holds exactly one ref per rendered interactive handle,
\* in render order, so no stale and no duplicate ref.
InteractiveCount(ch) == Length(getSortedInteractiveHandleProps(ch))
RenderedRefs == [k \in 0..(InteractiveCount(children) - 1) |-> k]

C11_RefsMatchRenderedHandles ==
    /\ []((mounted /\ ev.op # "snapshot") => handleElements = RenderedRefs)
    /\ [][ev'.op = "snapshot" =>
            handleElements' = (IF InteractiveCount(children') # InteractiveCount(children)
                               THEN EmptyArray ELSE handleElements)]_vars

C11_Witness ==
    /\ ev.op = "updated"
    /\ Length(ev.before) = Length(children)
    /\ InteractiveCount(ev.before) >= 2
    /\ InteractiveCount(children) >= 2
    /\ InteractiveCount(ev.before) # InteractiveCount(children)
    /\ handleElements = RenderedRefs

C11_WitnessSameCount ==
    /\ ev.op = "updated" /\ ev.before # children
    /\ InteractiveCount(ev.before) = InteractiveCount(children)
    /\ InteractiveCount(children) >= 2
====
